---- MODULE Spec2Model ----
(***************************************************************************)
(* Model of the three translation-pattern extractor scripts:               *)
(*   "cascade"  src/unnamed/part_000       (three-regex cascade)           *)
(*   "scanner"  src/unnamed/part_001       (line-by-line scanner)          *)
(*   "banner"   src/extract-banner-ids.js  (primary + backup regex)        *)
(*                                                                         *)
(* A JavaScript string is a sequence of tokens.  A token is either one     *)
(* character or a word the scripts never split (translateService, .stream, *)
(* ...); the decomposition of a string into tokens is unique, so equality  *)
(* of token sequences is equality of strings.  Width(token) is the number *)
(* of characters of the token.                                             *)
(***************************************************************************)
EXTENDS Integers, Sequences, FiniteSets, TLC

VARIABLES
  script,        \* which of the three scripts runs
  pc,            \* where the run is
  chunks,        \* the chunks the text under extraction was built from
  content,       \* the text handed to extractStreamPatterns
  patterns,      \* what extractStreamPatterns returned
  transExists,   \* fs.existsSync(TRANSLATION_FILE_PATH)
  jsonData,      \* the parsed localization document
  translations,  \* the flattened dictionary
  parses,        \* whether JSON.parse accepts the document's text
  rootExists,    \* fs.existsSync(PROJECT_PATH)
  listing,       \* fs.readdirSync of the root: its entries, in order
  fault,         \* the one file-system call that throws, if any
  tsFiles,       \* the files found under the root, in the order found
  fileIndex,     \* the next file to process
  allPatterns,   \* the analysis records
  output,        \* the object written as the JSON report
  csv,           \* the rows of the CSV report
  exitCode,      \* the status the process exited with
  written,       \* the report files written
  reads          \* the files read so far

(* what a run is given *)
given == <<script, chunks, transExists, jsonData, parses, rootExists,
           listing, fault>>

(* what the main function computes *)
run == <<translations, tsFiles, fileIndex, allPatterns, output, csv,
         exitCode, written, reads>>

vars == <<given, run, pc, content, patterns>>

Scripts == {"cascade", "scanner", "banner"}

----------------------------------------------------------------------------
(* Character classes of the regular expressions, lifted to tokens.         *)

NL == "\n"
SQ == "'"
DQ == "\""
(* The backtick cannot be written in a TLA+ string: BQ stands for that one   *)
(* character.                                                              *)
BQ == "BACKTICK"

(* The number of characters of a token. *)
Width(t) == IF t = BQ THEN 1 ELSE Len(t)

RECURSIVE Spaces(_)
Spaces(n) == IF n = 0 THEN "" ELSE " " \o Spaces(n - 1)

(* The lookahead of the backup regex, [\s\S]{0,200}?, in characters. *)
CharWindow == 200

(* A run of blanks one character too wide for the lookahead of the backup  *)
(* regex.                                                                  *)
Pad == Spaces(CharWindow + 1)

(* \s *)
IsWs(t) == t \in {NL, " ", Pad}

IsQuote(t) == t \in {SQ, DQ, BQ}

InClass(t, c) ==
  CASE c = "ws"        -> IsWs(t)
    [] c = "any"       -> TRUE
    [] c = "dot"       -> t # NL
    [] c = "quote"     -> IsQuote(t)
    [] c = "notquote"  -> ~IsQuote(t)
    [] c = "notrparen" -> t # ")"
    [] c = "notlbrace" -> t # "{"
    [] c = "noteq"     -> t \notin {"=", "=>"}
    [] c = "arrow"     -> t \in {"=", "=>"}
    [] c = "notsemi"   -> t # ";"
    [] c = "notcomma"  -> t # ","
    [] c = "argtok"    -> t \notin {",", ")", ";"} /\ ~IsWs(t)

----------------------------------------------------------------------------
(* RegExp.prototype.exec.  An expression is a sequence of items.  For the  *)
(* items k.. of an expression, CanMatch holds the positions of the text    *)
(* from which they match (ending at a position of `after`); the engine's   *)
(* backtracking ends, at each quantifier and alternative, with the first   *)
(* choice in its priority order from which the rest can match: the longest *)
(* run for a greedy quantifier, the shortest for a lazy one, the left      *)
(* alternative before the right one.                                       *)

Unbounded == 0 - 1

Lit(t)      == [k |-> "lit", t |-> t]
Opt(t)      == [k |-> "opt", t |-> t]
One(c)      == [k |-> "one", c |-> c]
Star(c)     == [k |-> "star", c |-> c, min |-> 0, max |-> Unbounded, g |-> 0]
Plus(c)     == [k |-> "star", c |-> c, min |-> 1, max |-> Unbounded, g |-> 0]
Cap(g, c)   == [k |-> "star", c |-> c, min |-> 1, max |-> Unbounded, g |-> g]
Lazy(c, mx) == [k |-> "lazy", c |-> c, min |-> 0, max |-> mx, g |-> 0]
Alt(a, b)   == [k |-> "alt", a |-> a, b |-> b]

NoCaps == [g \in 1..3 |-> <<0, 0>>]

Min(S) == CHOOSE m \in S : \A x \in S : m <= x

(* the greatest element of a non-empty subset of 1..n *)
MaxUpTo(S, n) ==
  n - (CHOOSE d \in 0..(n - 1) :
         /\ n - d \in S
         /\ \A e \in 0..(d - 1) : n - e \notin S)

(* the characters of text[lo..hi] *)
RECURSIVE WidthSum(_, _, _)
WidthSum(text, lo, hi) ==
  IF lo > hi THEN 0
  ELSE IF lo = hi THEN Width(text[lo])
  ELSE LET mid == (lo + hi) \div 2
       IN WidthSum(text, lo, mid) + WidthSum(text, mid + 1, hi)

(* text[p..q-1], of at least min tokens, is a run the quantified class     *)
(* `it` can consume                                                        *)
IsRunOf(it, min, text, p, q) ==
  /\ p + min <= q
  /\ \A i \in p..(q - 1) : InClass(text[i], it.c)
  /\ it.max = Unbounded \/ WidthSum(text, p, q - 1) <= it.max

IsRun(it, text, p, q) == IsRunOf(it, it.min, text, p, q)

(* the length of the longest run of `it` that ends before position q *)
RunBefore(it, text, q) ==
  CHOOSE d \in 0..(q - 1) :
    /\ \/ d = q - 1
       \/ ~InClass(text[q - d - 1], it.c)
       \/ it.max # Unbounded /\ WidthSum(text, q - d - 1, q - 1) > it.max
    /\ \A j \in 1..d : InClass(text[q - j], it.c)
    /\ it.max = Unbounded \/ WidthSum(text, q - d, q - 1) <= it.max

(* the positions from which a run of `it` ends at q *)
RunsTo(it, text, q) == (q - RunBefore(it, text, q))..(q - it.min)

(* The positions from which item `it` matches, ending in `after`; for the  *)
(* items lo..hi of an expression, <<P_lo, ..., P_hi>>, P_k the positions   *)
(* from which the items k..hi match, ending in `after`.                    *)
RECURSIVE CanMatchItem(_, _, _)
RECURSIVE CanMatchRange(_, _, _, _, _)

CanMatchItem(it, text, after) ==
  CASE it.k = "lit" ->
         {p \in {q - 1 : q \in after} : p >= 1 /\ text[p] = it.t}
    [] it.k = "one" ->
         {p \in {q - 1 : q \in after} : p >= 1 /\ InClass(text[p], it.c)}
    [] it.k = "opt" ->
         after \cup {p \in {q - 1 : q \in after} : p >= 1 /\ text[p] = it.t}
    [] it.k \in {"star", "lazy"} ->
         UNION {RunsTo(it, text, q) : q \in after}
    [] it.k = "alt" ->
         Head(CanMatchRange(it.a, 1, Len(it.a), text, after))
           \cup Head(CanMatchRange(it.b, 1, Len(it.b), text, after))

CanMatchRange(items, lo, hi, text, after) ==
  IF lo = hi THEN <<CanMatchItem(items[lo], text, after)>>
  ELSE LET mid   == (lo + hi) \div 2
           right == CanMatchRange(items, mid + 1, hi, text, after)
       IN IF right = <<>> THEN <<>>
          ELSE CanMatchRange(items, lo, mid, text, Head(right)) \o right

(* <<P_1, ..., P_n, after>> for a non-empty expression *)
CanMatch(items, text, after) ==
  CanMatchRange(items, 1, Len(items), text, after) \o <<after>>

(* The match the engine finds: st.end is the position reached and st.caps  *)
(* the capture groups, before and after item `it` (resp. the items lo..hi, *)
(* can[k] the positions from which the items k.. match).                   *)

(* where a quantifier stops: its runs are those the rest can match after   *)
StopOf(it, runs, n) ==
  IF it.k = "lazy" THEN Min(runs) ELSE MaxUpTo(runs, n)

Consume(it, st, stop) ==
  [end  |-> stop,
   caps |-> IF it.g = 0 THEN st.caps
            ELSE [st.caps EXCEPT ![it.g] = <<st.end, stop - 1>>]]

RECURSIVE WalkItem(_, _, _, _)
RECURSIVE WalkRange(_, _, _, _, _, _)

WalkSub(sub, next, text, st) ==
  WalkRange(sub, CanMatch(sub, text, next), text, 1, Len(sub), st)

WalkItem(it, next, text, st) ==
  CASE it.k \in {"lit", "one"} -> [st EXCEPT !.end = st.end + 1]
    [] it.k = "opt" ->
         IF st.end <= Len(text) /\ text[st.end] = it.t /\ st.end + 1 \in next
         THEN [st EXCEPT !.end = st.end + 1] ELSE st
    [] it.k \in {"star", "lazy"} ->
         Consume(it, st,
                 StopOf(it, {q \in next : /\ q >= st.end
                                          /\ IsRun(it, text, st.end, q)},
                        Len(text) + 1))
    [] it.k = "alt" ->
         WalkSub(IF st.end \in Head(CanMatchRange(it.a, 1, Len(it.a),
                                                  text, next))
                 THEN it.a ELSE it.b,
                 next, text, st)

WalkRange(items, can, text, lo, hi, st) ==
  IF lo = hi THEN WalkItem(items[lo], can[lo + 1], text, st)
  ELSE LET mid  == (lo + hi) \div 2
           left == WalkRange(items, can, text, lo, mid, st)
       IN IF left.end < 1 THEN left
          ELSE WalkRange(items, can, text, mid + 1, hi, left)

Found(index, m) ==
  [ok |-> TRUE, index |-> index, end |-> m.end, caps |-> m.caps]

MatchFrom(re, can, text, index) ==
  Found(index, WalkRange(re, can, text, 1, Len(re),
                         [end |-> index, caps |-> NoCaps]))

(* regex.exec on a /g regex: the leftmost match at or after lastIndex.     *)
Exec(re, can, text, lastIndex) ==
  IF \A s \in can[1] : s < lastIndex THEN [ok |-> FALSE]
  ELSE MatchFrom(re, can, text, Min({s \in can[1] : s >= lastIndex}))

RECURSIVE ExecFrom(_, _, _, _)

(* the loop after a match m: an empty match advances lastIndex by one *)
ExecNext(re, can, text, m) ==
  IF ~m.ok THEN <<>>
  ELSE <<m>> \o ExecFrom(re, can, text,
                         IF m.end = m.index THEN m.end + 1 ELSE m.end)

ExecFrom(re, can, text, lastIndex) ==
  ExecNext(re, can, text, Exec(re, can, text, lastIndex))

(* while ((match = regex.exec(text)) !== null): every match, in order.     *)
ExecAll(re, text) ==
  ExecFrom(re, CanMatch(re, text, 1..(Len(text) + 1)), text, 1)

Group(text, m, g) == SubSeq(text, m.caps[g][1], m.caps[g][2])

(* String.prototype.trim *)
RECURSIVE TrimLeft(_)
TrimLeft(s) == IF s # <<>> /\ IsWs(Head(s)) THEN TrimLeft(Tail(s)) ELSE s

RECURSIVE TrimRight(_)
TrimRight(s) ==
  IF s # <<>> /\ IsWs(s[Len(s)]) THEN TrimRight(SubSeq(s, 1, Len(s) - 1))
  ELSE s

Trim(s) == TrimRight(TrimLeft(s))

(* (text.substring(0, index).match(/\n/g) || []).length + 1 *)
LineOf(text, index) ==
  Cardinality({i \in 1..(index - 1) : text[i] = NL}) + 1

----------------------------------------------------------------------------
(* The regular expressions of the scripts.                                 *)

(* (?:this\.)?translateService\s*\.stream\s*\(\s*['"`]([^'"`]+)['"`][^)]*\) *)
StreamCall ==
  << Opt("this."), Lit("translateService"), Star("ws"), Lit(".stream"),
     Star("ws"), Lit("("), Star("ws"), One("quote"), Cap(1, "notquote"),
     One("quote"), Star("notrparen"), Lit(")") >>

(* (?:this\.)?alertService\s*\.setAlert\s*\( *)
SetAlertCall ==
  << Opt("this."), Lit("alertService"), Star("ws"), Lit(".setAlert"),
     Star("ws"), Lit("(") >>

(* \s*[^,]+\s*,\s*[^,]+\s*,\s*['"`]([^'"`]+)['"`]\s*,\s*[^,]+\s*,\s*([^,\);\s]+) *)
FiveArgs ==
  << Star("ws"), Plus("notcomma"), Star("ws"), Lit(","),
     Star("ws"), Plus("notcomma"), Star("ws"), Lit(","),
     Star("ws"), One("quote"), Cap(2, "notquote"), One("quote"), Star("ws"),
     Lit(","), Star("ws"), Plus("notcomma"), Star("ws"), Lit(","),
     Star("ws"), Cap(3, "argtok") >>

(* [\s\S]*?\.subscribe\s*\(\s* *)
ToSubscribe ==
  << Lazy("any", Unbounded), Lit(".subscribe"), Star("ws"), Lit("("),
     Star("ws") >>

(* part_000, regexPatterns[0..2] *)
regexPatterns ==
  << (* Pattern 1: ... [^{]*\{[\s\S]*? ... *)
     StreamCall \o ToSubscribe
       \o << Star("notlbrace"), Lit("{"), Lazy("any", Unbounded) >>
       \o SetAlertCall \o FiveArgs,
     (* Pattern 2: ... [^=]*=>\s*[^{]* ... *)
     StreamCall \o ToSubscribe
       \o << Star("noteq"), Lit("=>"), Star("ws"), Star("notlbrace") >>
       \o SetAlertCall \o FiveArgs,
     (* Pattern 3: ... [^=]*=>\s*\{?[\s\S]*? ... *)
     StreamCall \o ToSubscribe
       \o << Star("noteq"), Lit("=>"), Star("ws"), Opt("{"),
             Lazy("any", Unbounded) >>
       \o SetAlertCall \o FiveArgs >>

(* extract-banner-ids.js, streamRegex *)
streamRegex ==
  StreamCall
    \o << Star("ws"), Lit(".subscribe"), Star("ws"), Lit("("),
          Star("notlbrace"),
          Alt(<< One("arrow"), Star("ws"), Opt("{") >>,
              << Lit("function"), Star("notlbrace"), Lit("{") >>),
          Lazy("any", Unbounded) >>
    \o SetAlertCall
    \o << Star("notsemi"), One("quote"), Cap(2, "notquote"), One("quote"),
          Star("notsemi"), Lit(","), Star("ws"), Cap(3, "argtok"),
          Star("notsemi"), Opt(";"), Star("ws"),
          Alt(<< Lit("}") >>, << Lit(")"), Star("ws"), Lit(";") >>) >>

(* extract-banner-ids.js, backupRegex *)
backupRegex ==
  StreamCall
    \o << Lazy("any", CharWindow) >>
    \o SetAlertCall
    \o << Lazy("notsemi", Unbounded), One("quote"), Cap(2, "notquote"),
          One("quote"), Lazy("notsemi", Unbounded), Lit(","), Star("ws"),
          Cap(3, "argtok"), Lazy("notsemi", Unbounded), Lit(";") >>

(* content.replace(/\/\*[\s\S]*?\*\//g, '').replace(/\/\/.*$/gm, '') *)
blockComment == << Lit("/*"), Lazy("any", Unbounded), Lit("*/") >>
lineComment  == << Lit("//"), Star("dot") >>

(* the tokens of s[lo..hi] whose positions are in keep *)
RECURSIVE Keep(_, _, _, _)
Keep(s, keep, lo, hi) ==
  IF lo > hi THEN <<>>
  ELSE IF lo = hi THEN (IF lo \in keep THEN <<s[lo]>> ELSE <<>>)
  ELSE Keep(s, keep, lo, (lo + hi) \div 2)
         \o Keep(s, keep, (lo + hi) \div 2 + 1, hi)

(* the positions of the text outside the matches ms *)
Outside(text, ms) ==
  {i \in 1..Len(text) :
     \A j \in 1..Len(ms) : i < ms[j].index \/ i >= ms[j].end}

(* text.replace(re, '') for a /g regex: the text outside the matches *)
RemoveAll(re, text) ==
  Keep(text, Outside(text, ExecAll(re, text)), 1, Len(text))

cleanContent(text) == RemoveAll(lineComment, RemoveAll(blockComment, text))

(* patterns.sort((a, b) => a.lineNumber - b.lineNumber): a stable sort.    *)
RECURSIVE InsertByLine(_, _)
InsertByLine(sorted, p) ==
  IF sorted = <<>> THEN <<p>>
  ELSE IF sorted[Len(sorted)].lineNumber <= p.lineNumber
       THEN Append(sorted, p)
       ELSE Append(InsertByLine(SubSeq(sorted, 1, Len(sorted) - 1), p),
                   sorted[Len(sorted)])

RECURSIVE InsertAll(_, _)
InsertAll(sorted, ps) ==
  IF ps = <<>> THEN sorted
  ELSE InsertAll(InsertByLine(sorted, Head(ps)), Tail(ps))

(* no sort: the records as the passes pushed them *)
SortByLineOmitted(ps) == ps

SortByLine(ps) == InsertAll(<<>>, ps)

(* the list of the previous call, kept *)
PatternsKept == patterns

(* const patterns = []: each call starts with a list of its own *)
NoPatterns == <<>>

(* part_000: one record of the cascade, from a match of a regex *)
newPattern(text, m) ==
  [ a |-> Trim(Group(text, m, 1)),
    b |-> Trim(Group(text, m, 2)),
    c |-> Trim(Group(text, m, 3)),
    lineNumber |-> LineOf(text, m.index) ]

(* part_000: patterns.some(p => p.lineNumber === ... && p.a === ...) *)
isDuplicate(ps, np) ==
  \E i \in 1..Len(ps) : ps[i].lineNumber = np.lineNumber /\ ps[i].a = np.a

PushNew(ps, np) == IF isDuplicate(ps, np) THEN ps ELSE Append(ps, np)

RECURSIVE PushUnlessDuplicate(_, _, _)
PushUnlessDuplicate(ps, text, ms) ==
  IF ms = <<>> THEN ps
  ELSE PushUnlessDuplicate(PushNew(ps, newPattern(text, Head(ms))),
                           text, Tail(ms))

RECURSIVE Cascade(_, _, _)
Cascade(ps, text, res) ==
  IF res = <<>> THEN ps
  ELSE Cascade(PushUnlessDuplicate(ps, text, ExecAll(Head(res), text)),
               text, Tail(res))

(* part_000: extractStreamPatterns *)
extractCascade(text) ==
  SortByLine(Cascade(NoPatterns, cleanContent(text), regexPatterns))

(* extract-banner-ids.js: Math.abs(p.lineNumber - lineNumber) <= 2 *)
DedupeLines == 2

Abs(n) == IF n < 0 THEN 0 - n ELSE n

(* extract-banner-ids.js: the record of a match, primary or backup *)
bannerPattern(text, m) ==
  [ a |-> Trim(Group(text, m, 1)),
    b |-> Trim(Group(text, m, 2)),
    c |-> Trim(Group(text, m, 3)),
    lineNumber |-> LineOf(text, m.index) ]

(* extract-banner-ids.js: the primary pass pushes every match *)
PushAll(text, ms) == [i \in 1..Len(ms) |-> bannerPattern(text, ms[i])]

PrimaryPass(text) == NoPatterns \o PushAll(text, ExecAll(streamRegex, text))

(* extract-banner-ids.js: patterns.some(p => p.a === translationKey &&     *)
(* Math.abs(p.lineNumber - lineNumber) <= 2)                               *)
alreadyFound(ps, translationKey, lineNumber) ==
  \E i \in 1..Len(ps) :
    /\ ps[i].a = translationKey
    /\ Abs(ps[i].lineNumber - lineNumber) <= DedupeLines

RECURSIVE BackupPass(_, _, _)
BackupPass(ps, text, ms) ==
  IF ms = <<>> THEN ps
  ELSE BackupPass(IF alreadyFound(ps, Group(text, Head(ms), 1),
                                  LineOf(text, Head(ms).index))
                  THEN ps ELSE Append(ps, bannerPattern(text, Head(ms))),
                  text, Tail(ms))

(* extract-banner-ids.js: the two passes on the text without comments *)
BothPasses(clean) ==
  BackupPass(PrimaryPass(clean), clean, ExecAll(backupRegex, clean))

(* extract-banner-ids.js: extractStreamPatterns *)
extractBanner(text) == SortByLine(BothPasses(cleanContent(text)))

----------------------------------------------------------------------------
(* part_001: the line scanner.  Positions are 1-based; 0 stands for the -1 *)
(* of indexOf.                                                             *)

(* part_001: Math.min(i + 20, lines.length) *)
LineWindow == 20

(* part_001: parts.length >= 5 *)
MinParts == 5

(* s.indexOf(t, from) for a one-character t *)
IndexOf(s, t, from) ==
  IF \A i \in from..Len(s) : s[i] # t THEN 0
  ELSE CHOOSE i \in from..Len(s) :
         s[i] = t /\ \A j \in from..(i - 1) : s[j] # t

(* s.indexOf('.stream(') and s.indexOf('.setAlert(') *)
IsCall(s, name, i) == s[i] = name /\ s[i + 1] = "("

IndexOfCall(s, name) ==
  IF \A i \in 1..(Len(s) - 1) : ~IsCall(s, name, i) THEN 0
  ELSE CHOOSE i \in 1..(Len(s) - 1) :
         IsCall(s, name, i) /\ \A j \in 1..(i - 1) : ~IsCall(s, name, j)

(* s.substring(from): from is 0-based there, 1-based here *)
From(s, from) == SubSeq(s, from, Len(s))

(* the n-th separator of s, of those at the positions `at`; 0 before the   *)
(* first and Len(s) + 1 after the last                                     *)
Nth(s, at, n) ==
  IF n = 0 THEN 0
  ELSE IF n > Cardinality(at) THEN Len(s) + 1
  ELSE CHOOSE i \in at : Cardinality({j \in at : j <= i}) = n

SplitAt(s, at) ==
  [n \in 1..(Cardinality(at) + 1) |->
     SubSeq(s, Nth(s, at, n - 1) + 1, Nth(s, at, n) - 1)]

(* s.split(sep) for a one-character sep *)
Split(s, sep) == SplitAt(s, {i \in 1..Len(s) : s[i] = sep})

(* s.substring(start + 1, quoteEnd): the text between the quote at start   *)
(* and the one at quoteEnd; <<>> stands for null                           *)
Between(s, start, quoteEnd) ==
  IF start # 0 /\ quoteEnd # 0 THEN SubSeq(s, start + 1, quoteEnd - 1)
  ELSE <<>>

Quoted(s, start, quoteChar) ==
  Between(s, start, IndexOf(s, quoteChar, start + 1))

(* part_001, step 2: a single quote is looked for first, a double quote    *)
(* when there is none                                                      *)
KeyAfter(afterStream, single) ==
  IF single # 0 THEN Quoted(afterStream, single, SQ)
  ELSE Quoted(afterStream, IndexOf(afterStream, DQ, 1), DQ)

KeyIn(afterStream) == KeyAfter(afterStream, IndexOf(afterStream, SQ, 1))

(* part_001, step 2: the translation key of a line with .stream( *)
translationKeyOf(line) == KeyIn(From(line, IndexOfCall(line, ".stream")))

(* alertType.replace(/[);]/g, '') *)
StripClosers(s) ==
  Keep(s, {i \in 1..Len(s) : s[i] \notin {")", ";"}}, 1, Len(s))

(* Math.max(param3.indexOf("'"), param3.indexOf('"')) *)
Later(s1, s2) == IF s1 > s2 THEN s1 ELSE s2

QuotedAt(param3, q3) ==
  IF q3 = 0 THEN <<>> ELSE Quoted(param3, q3, param3[q3])

(* part_001: the container, the string of the third part *)
ContainerOf(param3) ==
  QuotedAt(param3, Later(IndexOf(param3, SQ, 1), IndexOf(param3, DQ, 1)))

(* part_001: the type, the fifth part without ) and ; *)
TypeOf(part) == Trim(StripClosers(Trim(part)))

Paired(alertContainer, alertType) ==
  IF alertContainer # <<>> /\ alertType # <<>>
  THEN [ok |-> TRUE, b |-> alertContainer, c |-> alertType]
  ELSE [ok |-> FALSE]

PartsOf(parts) ==
  IF Len(parts) >= MinParts
  THEN Paired(ContainerOf(Trim(parts[3])), TypeOf(parts[5]))
  ELSE [ok |-> FALSE]

ParamsOf(afterSetAlert) ==
  PartsOf(Split(From(afterSetAlert, IndexOf(afterSetAlert, "(", 1) + 1), ","))

(* part_001, step 4: the container and type of a line with .setAlert(;    *)
(* ok when both are found                                                  *)
setAlertOf(searchLine) ==
  ParamsOf(From(searchLine, IndexOfCall(searchLine, ".setAlert")))

(* part_001: the last line of the window of line i *)
WindowEnd(lines, i) ==
  IF i + LineWindow - 1 < Len(lines) THEN i + LineWindow - 1 ELSE Len(lines)

(* part_001: the lines of the window from which a container and a type are *)
(* extracted                                                               *)
Pairing(lines, i) ==
  {j \in i..WindowEnd(lines, i) :
     /\ IndexOfCall(lines[j], ".setAlert") # 0
     /\ setAlertOf(lines[j]).ok}

PushPaired(key, alert, i) ==
  << [a |-> key, b |-> alert.b, c |-> alert.c, lineNumber |-> i] >>

(* part_001: the record of the first pairing line, then break *)
PairWith(lines, i, key, found) ==
  IF key = <<>> \/ found = {} THEN <<>>
  ELSE PushPaired(key, setAlertOf(lines[Min(found)]), i)

(* part_001, steps 1-4 for line i *)
ScanLine(lines, i) ==
  IF IndexOfCall(lines[i], ".stream") = 0 THEN <<>>
  ELSE PairWith(lines, i, translationKeyOf(lines[i]), Pairing(lines, i))

RECURSIVE ScanLines(_, _, _)
ScanLines(lines, lo, hi) ==
  IF lo = hi THEN ScanLine(lines, lo)
  ELSE ScanLines(lines, lo, (lo + hi) \div 2)
         \o ScanLines(lines, (lo + hi) \div 2 + 1, hi)

ScanAll(lines) == NoPatterns \o ScanLines(lines, 1, Len(lines))

(* part_001: extractStreamPatterns *)
extractScanner(text) == ScanAll(Split(text, NL))

(* extractStreamPatterns of each script *)
extractStreamPatterns(s, text) ==
  CASE s = "cascade" -> extractCascade(text)
    [] s = "scanner" -> extractScanner(text)
    [] s = "banner"  -> extractBanner(text)

----------------------------------------------------------------------------
(* flattenTranslationKeys.  A parsed JSON object is the sequence of its    *)
(* <<key, value>> entries in the order for...in visits them; a key is a    *)
(* string of one-character tokens, <<>> the empty key.                     *)

Str(v)  == [t |-> "string", v |-> v]
Arr(v)  == [t |-> "array", v |-> v]
Obj(e)  == [t |-> "object", e |-> e]
Null      == [t |-> "null"]
Undefined == [t |-> "undefined"]

(* typeof v === 'object' && v !== null && !Array.isArray(v) *)
IsNested(v) == v.t = "object"

(* prefix ? prefix + '.' + key : key; the empty string is falsy *)
NewKey(prefix, key) ==
  IF prefix # <<>> THEN prefix \o <<".">> \o key ELSE key

(* result[newKey] = value; a second assignment to a key replaces the first *)
Put(result, newKey, value) ==
  [k \in DOMAIN result \cup {newKey} |->
     IF k = newKey THEN value ELSE result[k]]

RECURSIVE flattenTranslationKeys(_, _, _)

(* the body of the loop for one key *)
FlattenEntry(value, newKey, result) ==
  IF IsNested(value) THEN flattenTranslationKeys(value.e, newKey, result)
  ELSE Put(result, newKey, value)

flattenTranslationKeys(obj, prefix, result) ==
  IF obj = <<>> THEN result
  ELSE flattenTranslationKeys(
         Tail(obj), prefix,
         FlattenEntry(Head(obj)[2], NewKey(prefix, Head(obj)[1]), result))

----------------------------------------------------------------------------
(* Source texts.  A text is built from chunks, one or more whole lines     *)
(* each, joined by line breaks.                                            *)

KeyXY == <<"x", ".", "y">>
KeyZ  == <<"z">>

Container == <<"container">>
ErrorType == <<"AlertType.ERROR">>

(* this.translateService.stream(<q>key<q>) *)
StreamOf(q, key) ==
  <<"this.", "translateService", ".stream", "(", q>> \o key \o <<q, ")">>

(* this.alertService.setAlert(args) *)
SetAlertOf(args) ==
  <<"this.", "alertService", ".setAlert", "(">> \o args \o <<")">>

(* m, n, 'container', <fourth>, AlertType.ERROR *)
ArgsWith(fourth) ==
  <<"m", ",", " ", "n", ",", " ", SQ>> \o Container
    \o <<SQ, ",", " ">> \o fourth \o <<",", " ">> \o ErrorType

Args == ArgsWith(<<"d">>)

(* .subscribe(m => {<sep>this.alertService.setAlert(args);<sep>}); *)
BraceBody(args, sep) ==
  <<".subscribe", "(", "m", " ", "=>", " ", "{", sep>>
    \o SetAlertOf(args) \o <<";", sep, "}", ")", ";">>

(* the idiom over three lines, the call in a braced arrow function *)
BraceMulti(q, key) == StreamOf(q, key) \o BraceBody(Args, NL)

(* the same on one line *)
BraceSingle(q, key) == StreamOf(q, key) \o BraceBody(Args, " ")

(* .subscribe(m => this.alertService.setAlert(args)); *)
InlineArrow(q, key) ==
  StreamOf(q, key) \o <<".subscribe", "(", "m", " ", "=>", " ">>
    \o SetAlertOf(Args) \o <<")", ";">>

(* .stream('k').pipe(p).subscribe(m => this.alertService.setAlert(args)); *)
Piped(q, key) ==
  StreamOf(q, key) \o <<".pipe", "(", "p", ")">>
    \o <<".subscribe", "(", "m", " ", "=>", " ">>
    \o SetAlertOf(Args) \o <<")", ";">>

(* .stream('k').subscribe(m => { f(m); this.alertService.setAlert(args); }); *)
AfterStatement(q, key) ==
  StreamOf(q, key)
    \o <<".subscribe", "(", "m", " ", "=>", " ", "{", " ",
         "f", "(", "m", ")", ";", " ">>
    \o SetAlertOf(Args) \o <<";", " ", "}", ")", ";">>

(* the fourth argument of setAlert is a string literal too *)
QuotedFourth(q, key) ==
  StreamOf(q, key) \o BraceBody(ArgsWith(<<SQ, "w", SQ>>), NL)

(* this.translateService.stream('k').subscribe(m => m); *)
StreamOnly(q, key) ==
  StreamOf(q, key) \o <<".subscribe", "(", "m", " ", "=>", " ", "m", ")", ";">>

(* this.alertService.setAlert(m, n, 'container', d, AlertType.ERROR); *)
AlertOnly == SetAlertOf(Args) \o <<";">>

(* setAlert(m, n, 'container', AlertType.ERROR): four arguments *)
FourArgs ==
  <<"m", ",", " ", "n", ",", " ", SQ>> \o Container
    \o <<SQ, ",", " ">> \o ErrorType

(* setAlert(f(m, n), 'container', d, AlertType.ERROR): four arguments, the *)
(* first a nested call                                                     *)
NestedCallArgs ==
  <<"f", "(", "m", ",", " ", "n", ")", ",", " ", SQ>> \o Container
    \o <<SQ, ",", " ", "d", ",", " ">> \o ErrorType

(* n line breaks *)
Breaks(n) == [i \in 1..n |-> NL]

(* the whole idiom inside a block comment, and after // on a line *)
BlockCommented == <<"/*", " ">> \o InlineArrow(SQ, KeyXY) \o <<" ", "*/">>
LineCommented  == <<"//", " ">> \o InlineArrow(SQ, KeyXY)

(* the receiver on one line and .stream('k') on the next *)
SplitReceiver(q, key) ==
  <<"this.", "translateService", NL, " ", ".stream", "(", q>> \o key
    \o <<q, ")">> \o BraceBody(Args, NL)

(* .stream(k).pipe(tag('p')).subscribe(m => { ... }): the first argument   *)
(* is not a string literal, a later call on the line has one               *)
LaterLiteral ==
  <<"this.", "translateService", ".stream", "(", "k", ")",
    ".pipe", "(", "tag", "(", SQ, "p", SQ, ")", ")">> \o BraceBody(Args, NL)

(* a key with a double quote in it, for a literal in single quotes *)
KeyAB == <<"a", DQ, "b">>

(* the stream call, then setAlert(m, n), then the setAlert of five         *)
(* arguments, each on its own line                                         *)
FailedThenGood ==
  StreamOf(SQ, KeyXY) \o <<".subscribe", "(", "m", " ", "=>", " ", "{", NL>>
    \o SetAlertOf(<<"m", ",", " ", "n">>) \o <<";", NL>>
    \o SetAlertOf(Args) \o <<";", NL, "}", ")", ";">>

(* The chunks texts are built from.  occ: the stream calls of the chunk;   *)
(* wf: each is a well-formed occurrence of the idiom, with key `key`, a    *)
(* setAlert of five arguments, the third 'container' and the fifth         *)
(* AlertType.ERROR; args: the top-level arguments of its setAlert calls.   *)
(* A chunk: its text, the occurrences of the idiom in it, whether each is   *)
(* well formed with its stream call on the first line of the chunk, the    *)
(* key, and the most arguments of a setAlert call in it                    *)
Chunk(text, occ, wf, key, args) ==
  [text |-> text, occ |-> occ, wf |-> wf, key |-> key, args |-> args]

Chunks ==
  << Chunk(BraceMulti(SQ, KeyXY), 1, TRUE, KeyXY, 5),
     Chunk(BraceMulti(DQ, KeyZ), 1, TRUE, KeyZ, 5),
     Chunk(BraceSingle(SQ, KeyXY), 1, TRUE, KeyXY, 5),
     Chunk(InlineArrow(SQ, KeyZ), 1, TRUE, KeyZ, 5),
     Chunk(Piped(SQ, KeyXY), 1, TRUE, KeyXY, 5),
     Chunk(QuotedFourth(SQ, KeyXY), 1, TRUE, KeyXY, 5),
     Chunk(BraceMulti(BQ, KeyXY), 1, TRUE, KeyXY, 5),
     Chunk(BraceSingle(SQ, KeyXY) \o <<" ">> \o AfterStatement(SQ, KeyXY),
           2, TRUE, KeyXY, 5),
     Chunk(StreamOnly(SQ, KeyXY), 1, FALSE, KeyXY, 0),
     Chunk(AlertOnly, 0, FALSE, <<>>, 5),
     Chunk(AlertOnly \o <<" ">> \o StreamOnly(SQ, KeyXY), 1, FALSE, KeyXY, 5),
     Chunk(StreamOnly(SQ, KeyXY) \o Breaks(LineWindow) \o AlertOnly,
           1, FALSE, KeyXY, 5),
     Chunk(StreamOnly(SQ, KeyXY) \o <<Pad>> \o AlertOnly, 1, FALSE, KeyXY, 5),
     Chunk(StreamOf(SQ, KeyXY) \o BraceBody(FourArgs, NL), 1, FALSE, KeyXY, 4),
     Chunk(StreamOf(SQ, KeyXY) \o BraceBody(NestedCallArgs, NL),
           1, FALSE, KeyXY, 4),
     Chunk(BlockCommented, 0, FALSE, <<>>, 5),
     Chunk(LineCommented, 0, FALSE, <<>>, 5),
     Chunk(SplitReceiver(SQ, KeyXY), 1, FALSE, KeyXY, 5),
     Chunk(LaterLiteral, 0, FALSE, <<>>, 5),
     Chunk(BraceMulti(SQ, KeyAB), 1, TRUE, KeyAB, 5),
     Chunk(FailedThenGood, 1, FALSE, KeyXY, 5) >>

(* the most chunks of a text *)
MaxChunks == 2

RECURSIVE JoinLines(_)
JoinLines(cs) ==
  IF Len(cs) = 1 THEN cs[1].text
  ELSE cs[1].text \o <<NL>> \o JoinLines(Tail(cs))

ChunkLists ==
  UNION {[1..n -> 1..Len(Chunks)] : n \in 1..MaxChunks}

(* the chunks of the text under extraction *)
ChunkAt(i) == Chunks[chunks[i]]

----------------------------------------------------------------------------
(* The extractor on its own: one call of extractStreamPatterns on a text.  *)

(* The entries of a directory: file i of SourceFiles or the directory sub; *)
(* Root is the project directory itself                                    *)
File(i) == [kind |-> "file", file |-> i]
Sub     == [kind |-> "dir", file |-> 0]
Root    == [kind |-> "root", file |-> 0]

(* no file-system call throws *)
NoFault == [call |-> "none", at |-> Root]

Idle ==
  /\ translations = <<>> /\ tsFiles = <<>>
  /\ fileIndex = 1 /\ allPatterns = <<>>
  /\ output = <<>> /\ csv = <<>> /\ exitCode = 0 /\ written = {}
  /\ reads = <<>>

InitExtract ==
  /\ script \in Scripts
  /\ chunks \in ChunkLists
  /\ content = JoinLines([i \in 1..Len(chunks) |-> Chunks[chunks[i]]])
  /\ patterns = <<>>
  /\ pc = "ready"
  /\ transExists = TRUE /\ jsonData = <<>> /\ parses = TRUE
  /\ rootExists = TRUE /\ listing = <<>> /\ fault = NoFault
  /\ Idle

ExtractCascade ==
  /\ pc = "ready" /\ script = "cascade"
  /\ patterns' = extractCascade(content)
  /\ pc' = "done"
  /\ UNCHANGED <<given, run, content>>

ExtractScanner ==
  /\ pc = "ready" /\ script = "scanner"
  /\ patterns' = extractScanner(content)
  /\ pc' = "done"
  /\ UNCHANGED <<given, run, content>>

ExtractBanner ==
  /\ pc = "ready" /\ script = "banner"
  /\ patterns' = extractBanner(content)
  /\ pc' = "done"
  /\ UNCHANGED <<given, run, content>>

NextExtract == ExtractCascade \/ ExtractScanner \/ ExtractBanner

SpecExtract == InitExtract /\ [][NextExtract]_vars

(* The extractor called a second time on the same text. *)
ExtractAgain ==
  /\ pc = "done"
  /\ patterns' = extractStreamPatterns(script, content)
  /\ pc' = "again"
  /\ UNCHANGED <<given, run, content>>

NextTwice == ExtractCascade \/ ExtractScanner \/ ExtractBanner \/ ExtractAgain

SpecTwice == InitExtract /\ [][NextTwice]_vars


----------------------------------------------------------------------------
(* flattenTranslationKeys on its own, on the documents of at most          *)
(* MaxEntries entries, nested at most MaxDepth deep.                       *)

MaxEntries == 3
MaxDepth == 3

Keys == {<<"a">>, <<"b">>, <<"a", ".", "b">>, <<>>}

Leaves == {Str(<<"v1">>), Str(<<"v2">>), Arr(<<Str(<<"v1">>)>>), Null}

KeysOf(obj) == {obj[i][1] : i \in 1..Len(obj)}

(* the objects of at most n entries in all, nested at most d deep *)
RECURSIVE Objects(_, _)
Objects(n, d) ==
  IF n = 0 \/ d = 0 THEN {<<>>}
  ELSE {<<>>} \cup
       UNION {
         UNION {
           {<<<<k, v>>>> \o rest :
              k \in Keys \ KeysOf(rest),
              v \in Leaves \cup {Obj(e) : e \in Objects(c, d - 1)}}
           : rest \in Objects(n - 1 - c, d)}
         : c \in 0..(n - 1)}

InitFlatten ==
  /\ jsonData \in Objects(MaxEntries, MaxDepth)
  /\ pc = "ready"
  /\ script \in Scripts
  /\ chunks = <<>> /\ content = <<>> /\ patterns = <<>>
  /\ transExists = TRUE /\ parses = TRUE
  /\ rootExists = TRUE /\ listing = <<>> /\ fault = NoFault
  /\ Idle

Flatten ==
  /\ pc = "ready"
  /\ translations' = flattenTranslationKeys(jsonData, <<>>, <<>>)
  /\ pc' = "done"
  /\ UNCHANGED <<given, content, patterns, tsFiles, fileIndex, allPatterns,
                 output, csv, exitCode, written, reads>>

NextFlatten == Flatten

SpecFlatten == InitFlatten /\ [][NextFlatten]_vars

----------------------------------------------------------------------------
(* extractAndMatchPatterns, the main function of each script.  The records *)
(* are modelled without their fullMatch / fullPattern text.                *)

(* the properties an object literal {} inherits from Object.prototype:     *)
(* translations[key] finds them when the object has no such key of its own *)
InheritedKeys ==
  { <<"c", "o", "n", "s", "t", "r", "u", "c", "t", "o", "r">>,
    <<"t", "o", "S", "t", "r", "i", "n", "g">> }

Inherited == [t |-> "function"]

(* translations[key] *)
Lookup(dict, key) ==
  IF key \in DOMAIN dict THEN dict[key]
  ELSE IF key \in InheritedKeys THEN Inherited
  ELSE Undefined

(* the values JavaScript takes for false *)
Falsy(v) == v \in {Undefined, Null, Str(<<>>)}

(* value || null *)
OrNull(v) == IF Falsy(v) THEN Null ELSE v

(* String(value), for the values a record can hold *)
StringOf(v) ==
  CASE v.t = "string"   -> v.v
    [] v.t = "function" -> <<"function Object() { [native code] }">>
    [] OTHER            -> <<>>

(* translationValue !== null *)
Analysed(p, translationValue, filePath) ==
  [ translationKey   |-> p.a,
    translationValue |-> translationValue,
    alertContainer   |-> p.b,
    alertType        |-> p.c,
    filePath         |-> filePath,
    lineNumber       |-> p.lineNumber,
    hasTranslation   |-> translationValue # Null ]

(* the records of one file, in the order of its patterns *)
AnalyseAll(ps, dict, filePath) ==
  [j \in 1..Len(ps) |->
     Analysed(ps[j], OrNull(Lookup(dict, ps[j].a)), filePath)]

(* loadTranslationFile: {} when the file does not exist, and {} from the   *)
(* catch when JSON.parse throws                                            *)
loadTranslationFile(exists, parsed, data) ==
  IF exists /\ parsed THEN flattenTranslationKeys(data, <<>>, <<>>) ELSE <<>>

(* the keys of the records: [...new Set(...)] in part_000 and              *)
(* extract-banner-ids.js; in part_001 a key is new when !keySet[key], and  *)
(* keySet is an object literal                                             *)
uniqueKeys(s, records) ==
  {records[i].translationKey : i \in 1..Len(records)}
    \ (IF s = "scanner" THEN InheritedKeys ELSE {})

(* translations[key] !== undefined; in part_001, if (translations[key]) *)
matchedKeys(s, dict, keys) ==
  IF s = "scanner" THEN {k \in keys : ~Falsy(Lookup(dict, k))}
  ELSE {k \in keys : Lookup(dict, k) # Undefined}

Summary(totalPatterns, keys, matched) ==
  [ totalPatterns        |-> totalPatterns,
    uniqueTranslationKeys |-> Cardinality(keys),
    matchedTranslations  |-> Cardinality(matched),
    missingTranslations  |-> Cardinality(keys \ matched) ]

SummaryOf(s, dict, records, keys) ==
  Summary(Len(records), keys, matchedKeys(s, dict, keys))

(* part_000 and extract-banner-ids.js: one pattern of fileResults, with    *)
(* hasTranslation: translations[p.a] !== undefined                         *)
FileResult(dict, r) ==
  [ file           |-> r.filePath,
    line           |-> r.lineNumber,
    translationKey |-> r.translationKey,
    hasTranslation |-> Lookup(dict, r.translationKey) # Undefined ]

(* the patterns of fileResults, file after file: they are those of the     *)
(* analysis records, in the same order                                     *)
FileResults(dict, records) ==
  [i \in 1..Len(records) |-> FileResult(dict, records[i])]

(* summary.matchedKeys and summary.missingKeys, by their keys *)
KeySummary(keys, matched) ==
  [matchedKeys |-> matched, missingKeys |-> keys \ matched]

(* the output object written as the JSON report; part_001 writes metadata  *)
(* and patterns only                                                       *)
Report(s, dict, records, keys) ==
  IF s = "scanner"
  THEN [ metadata |-> SummaryOf(s, dict, records, keys),
         patterns |-> records ]
  ELSE [ metadata    |-> SummaryOf(s, dict, records, keys),
         patterns    |-> records,
         summary     |-> KeySummary(keys, matchedKeys(s, dict, keys)),
         fileResults |-> FileResults(dict, records) ]

(* '"' + s + '"' *)
Wrap(s) == <<DQ>> \o s \o <<DQ>>

(* s.replace(/"/g, '""') *)
RECURSIVE DoubleQuotes(_, _, _)
DoubleQuotes(s, lo, hi) ==
  IF lo > hi THEN <<>>
  ELSE IF lo = hi THEN (IF s[lo] = DQ THEN <<DQ, DQ>> ELSE <<s[lo]>>)
  ELSE DoubleQuotes(s, lo, (lo + hi) \div 2)
         \o DoubleQuotes(s, (lo + hi) \div 2 + 1, hi)

(* every white-space character a space *)
Blank(s) == [i \in 1..Len(s) |-> IF IsWs(s[i]) THEN " " ELSE s[i]]

(* s.replace(/\r?\n/g, ' ').replace(/\s+/g, ' ').trim() *)
CollapseWs(s) ==
  Trim(Keep(Blank(s),
            {i \in 1..Len(s) : ~IsWs(s[i]) \/ i = 1 \/ ~IsWs(s[i - 1])},
            1, Len(s)))

Quote(cleanValue) == Wrap(DoubleQuotes(cleanValue, 1, Len(cleanValue)))

(* part_001: escapeCsvValue, of a string *)
escapeCsvValue(value) == Quote(CollapseWs(value))

(* part_000 and extract-banner-ids.js: `"${value}"` *)
Interpolated(value) == Wrap(value)

(* a string field of a CSV row, as the script writes it *)
Field(s, value) ==
  IF s = "scanner" THEN escapeCsvValue(value) ELSE Interpolated(value)

(* pattern.translationValue || 'MISSING TRANSLATION' *)
ValueText(r) ==
  IF Falsy(r.translationValue) THEN <<"MISSING TRANSLATION">>
  ELSE StringOf(r.translationValue)

(* pattern.hasTranslation ? 'MATCHED' : 'MISSING', in part_001 YES and NO *)
StatusText(s, r) ==
  IF s = "scanner" THEN (IF r.hasTranslation THEN <<"YES">> ELSE <<"NO">>)
  ELSE (IF r.hasTranslation THEN <<"MATCHED">> ELSE <<"MISSING">>)

(* one row of the CSV report *)
Row(s, r) ==
  [ key       |-> Field(s, r.translationKey),
    value     |-> Field(s, ValueText(r)),
    container |-> Field(s, r.alertContainer),
    type      |-> Field(s, r.alertType),
    path      |-> Field(s, r.filePath),
    line      |-> r.lineNumber,
    status    |-> Field(s, StatusText(s, r)) ]

Rows(s, records) == [i \in 1..Len(records) |-> Row(s, records[i])]

(* !fs.existsSync(PROJECT_PATH) *)
RootCheckSkipped == FALSE

RootMissing == ~rootExists

(* the most entries of the root directory *)
MaxFiles == 2

KeyCtor == <<"c", "o", "n", "s", "t", "r", "u", "c", "t", "o", "r">>

SourceFiles ==
  << [path |-> <<"/app/a.ts">>, name |-> <<"a", ".ts">>,
      text |-> BraceMulti(SQ, KeyXY)],
     [path |-> <<"/app/b.ts">>, name |-> <<"b", ".ts">>,
      text |-> BraceMulti(SQ, KeyCtor)],
     [path |-> <<"/app/c.ts">>, name |-> <<"c", ".ts">>,
      text |-> StreamOnly(SQ, KeyXY)],
     [path |-> <<"/app/d.tsx">>, name |-> <<"d", ".tsx">>,
      text |-> InlineArrow(DQ, KeyZ)],
     [path |-> <<"/app/sub/e.ts">>, name |-> <<"e", ".ts">>,
      text |-> BraceMulti(DQ, KeyZ)],
     [path |-> <<"/app/notes.md">>, name |-> <<"notes", ".md">>,
      text |-> BraceMulti(SQ, KeyXY)] >>

(* the files directly under the root, and the listing of sub *)
RootEntries == {File(1), File(2), File(3), File(4), File(6), Sub}
SubListing  == <<File(5)>>

Listings ==
  {fs \in UNION {[1..n -> RootEntries] : n \in 0..MaxFiles} :
     \A i, j \in 1..Len(fs) : fs[i] = fs[j] => i = j}

(* the entries of the tree under a root with listing l *)
EntriesUnder(l) ==
  {l[i] : i \in 1..Len(l)}
    \cup (IF \E i \in 1..Len(l) : l[i] = Sub THEN {File(5)} ELSE {})

(* the one call that throws: fs.readdirSync of a directory, fs.statSync of *)
(* an entry or fs.readFileSync of a file                                   *)
Faults(l) ==
  {NoFault}
    \cup {[call |-> "readdir", at |-> d] :
            d \in {Root} \cup (EntriesUnder(l) \cap {Sub})}
    \cup {[call |-> "stat", at |-> e] : e \in EntriesUnder(l)}
    \cup {[call |-> "read", at |-> e] : e \in EntriesUnder(l) \ {Sub}}

Throws(call, e) == fault = [call |-> call, at |-> e]

(* file.endsWith('.ts') || file.endsWith('.tsx') *)
IsTs(file) == file[Len(file)] \in {".ts", ".tsx"}

(* fs.readdirSync(dir) *)
ReadDir(dir, l) == IF dir = Root THEN l ELSE SubListing

RECURSIVE findTsFiles(_, _, _)
RECURSIVE ForEachEntry(_, _, _, _)

(* the loop over the entries of a directory, from entry k on; an exception *)
(* of statSync leaves the loop for the catch of this directory             *)
ForEachEntry(files, k, l, fileList) ==
  IF k > Len(files) THEN fileList
  ELSE IF Throws("stat", files[k]) THEN fileList
  ELSE IF files[k].kind = "dir"
    THEN ForEachEntry(files, k + 1, l, findTsFiles(files[k], l, fileList))
  ELSE IF IsTs(SourceFiles[files[k].file].name)
    THEN ForEachEntry(files, k + 1, l, Append(fileList, files[k].file))
  ELSE ForEachEntry(files, k + 1, l, fileList)

(* findTsFiles(dir, fileList), l the listing of the root *)
findTsFiles(dir, l, fileList) ==
  IF Throws("readdir", dir) THEN fileList
  ELSE ForEachEntry(ReadDir(dir, l), 1, l, fileList)

TranslationFiles ==
  { << <<<<"x">>, Obj(<< <<<<"y">>,
          Str(<<"He", " ", "said", " ", DQ, "hi", DQ>>)>> >>)>> >>,
    << <<<<"x">>, Obj(<< <<<<"y">>, Str(<<"two", NL, "lines">>)>> >>)>>,
       <<<<"z">>, Str(<<>>)>> >>,
    <<>> }

(* the localization document: missing, not JSON, or one of the documents *)
Documents ==
  {[exists |-> FALSE, parses |-> TRUE, data |-> <<>>],
   [exists |-> TRUE, parses |-> FALSE, data |-> <<>>]}
    \cup {[exists |-> TRUE, parses |-> TRUE, data |-> d] :
            d \in TranslationFiles}

Init ==
  /\ script \in Scripts
  /\ rootExists \in BOOLEAN
  /\ \E doc \in Documents :
       /\ transExists = doc.exists
       /\ parses = doc.parses
       /\ jsonData = doc.data
  /\ listing \in Listings
  /\ fault \in Faults(listing)
  /\ chunks = <<>> /\ content = <<>> /\ patterns = <<>>
  /\ pc = "start"
  /\ Idle

(* the check of the project directory: process.exit(1) when it is missing *)
CheckRoot ==
  /\ pc = "start"
  /\ IF RootMissing
     THEN exitCode' = 1 /\ pc' = "exited"
     ELSE exitCode' = exitCode /\ pc' = "load"
  /\ UNCHANGED <<given, content, patterns, translations, tsFiles, fileIndex,
                 allPatterns, output, csv, written, reads>>

LoadTranslations ==
  /\ pc = "load"
  /\ translations' = loadTranslationFile(transExists, parses, jsonData)
  /\ reads' = IF transExists THEN Append(reads, <<"translations">>) ELSE reads
  /\ pc' = "find"
  /\ UNCHANGED <<given, content, patterns, tsFiles, fileIndex, allPatterns,
                 output, csv, exitCode, written>>

(* findTsFiles, and the return when it finds nothing *)
FindFiles ==
  /\ pc = "find"
  /\ tsFiles' = findTsFiles(Root, listing, <<>>)
  /\ pc' = IF Len(tsFiles') = 0 THEN "returned" ELSE "scan"
  /\ UNCHANGED <<given, content, patterns, translations, fileIndex,
                 allPatterns, output, csv, exitCode, written, reads>>

(* one turn of the loop over the files; an exception of readFileSync is    *)
(* caught and the loop goes on with the next file                          *)
ProcessFile ==
  /\ pc = "scan"
  /\ IF Throws("read", File(tsFiles[fileIndex]))
     THEN UNCHANGED <<content, patterns, allPatterns, reads>>
     ELSE /\ content' = SourceFiles[tsFiles[fileIndex]].text
          /\ patterns' = extractStreamPatterns(script, content')
          /\ allPatterns' = allPatterns
               \o AnalyseAll(patterns', translations,
                             SourceFiles[tsFiles[fileIndex]].path)
          /\ reads' = Append(reads, SourceFiles[tsFiles[fileIndex]].path)
  /\ fileIndex' = fileIndex + 1
  /\ pc' = IF fileIndex = Len(tsFiles) THEN "report" ELSE "scan"
  /\ UNCHANGED <<given, translations, tsFiles, output, csv, exitCode,
                 written>>

(* the summary and the JSON report; part_000 and extract-banner-ids.js     *)
(* return before it when no file had a pattern                             *)
WriteJson ==
  /\ pc = "report"
  /\ IF script # "scanner" /\ allPatterns = <<>>
     THEN pc' = "returned" /\ UNCHANGED <<output, written>>
     ELSE /\ output' = Report(script, translations, allPatterns,
                                 uniqueKeys(script, allPatterns))
          /\ written' = written \cup {"json"}
          /\ pc' = "csv"
  /\ UNCHANGED <<given, content, patterns, translations, tsFiles, fileIndex,
                 allPatterns, csv, exitCode, reads>>

WriteCsv ==
  /\ pc = "csv"
  /\ csv' = Rows(script, allPatterns)
  /\ written' = written \cup {"csv"}
  /\ pc' = "done"
  /\ UNCHANGED <<given, content, patterns, translations, tsFiles, fileIndex,
                 allPatterns, output, exitCode, reads>>

Next ==
  \/ CheckRoot
  \/ LoadTranslations
  \/ FindFiles
  \/ ProcessFile
  \/ WriteJson
  \/ WriteCsv

Spec == Init /\ [][Next]_vars

----------------------------------------------------------------------------
(* Properties of extractStreamPatterns, under SpecExtract.                 *)

(* the lines of chunk i and the line on which it starts *)
LinesOf(i) ==
  Cardinality({k \in 1..Len(ChunkAt(i).text) : ChunkAt(i).text[k] = NL}) + 1

RECURSIVE StartLine(_)
StartLine(i) == IF i = 1 THEN 1 ELSE StartLine(i - 1) + LinesOf(i - 1)

(* every chunk of the text is one well-formed occurrence of the idiom *)
OnlyIdioms ==
  \A i \in 1..Len(chunks) : ChunkAt(i).wf /\ ChunkAt(i).occ = 1

StreamAt == {i \in 1..Len(content) : content[i] = ".stream"}
AlertAt  == {i \in 1..Len(content) : content[i] = ".setAlert"}

IsSorted(ps) ==
  \A i, j \in 1..Len(ps) : i < j => ps[i].lineNumber <= ps[j].lineNumber

(* C1: a text with one stream call of key K followed by a setAlert call of *)
(* five arguments, the third the string literal C and the fifth the bare   *)
(* token T, gives exactly one record, with a = K, b = C and c = T.         *)
C1_OneIdiomOneRecord ==
  (pc = "done" /\ Len(chunks) = 1 /\ OnlyIdioms)
    => /\ Len(patterns) = 1
       /\ patterns[1].a = ChunkAt(1).key
       /\ patterns[1].b = Container
       /\ patterns[1].c = ErrorType

(* C2: a text of N well-formed occurrences, each starting on its own line, *)
(* and no malformed one gives exactly N records, one per occurrence, also  *)
(* when occurrences share a key on nearby lines or are found by the backup *)
(* pass only.                                                              *)
C2_OneRecordPerOccurrence ==
  (pc = "done" /\ OnlyIdioms)
    => /\ Len(patterns) = Len(chunks)
       /\ \A i \in 1..Len(chunks) : patterns[i].lineNumber = StartLine(i)

(* C3: no two records of one text have both the same lineNumber and the    *)
(* same translation key, in each of the three scripts.                     *)
C3_NoTwoRecordsShareLineAndKey ==
  pc = "done"
    => \A i, j \in 1..Len(patterns) :
         (/\ patterns[i].lineNumber = patterns[j].lineNumber
          /\ patterns[i].a = patterns[j].a) => i = j

(* C4: the records are in non-decreasing order of lineNumber, whichever    *)
(* pass or scan step produced them.                                        *)
C4_SortedByLine == pc = "done" => IsSorted(patterns)

(* C4, witness: the backup pass of extract-banner-ids.js found a record on *)
(* a line above one of the primary pass, and the sort moved it up          *)
C4_BackupRecordMovedUp ==
  /\ pc = "done" /\ script = "banner" /\ Len(patterns) >= 2
  /\ patterns[1].lineNumber < patterns[2].lineNumber
  /\ ~IsSorted(BothPasses(cleanContent(content)))

(* C5: a text where no setAlert call comes after a stream call, all of its *)
(* setAlert calls being located before its stream calls, the same line     *)
(* included, gives no record.                                              *)
C5_NoSetAlertAfterNoRecord ==
  (/\ pc = "done" /\ StreamAt # {}
   /\ \A st \in StreamAt : \A al \in AlertAt : al < st)
    => patterns = <<>>

(* C6: a text whose setAlert calls all have fewer than five top-level      *)
(* arguments gives no record; the commas of a nested call are not          *)
(* separators of top-level arguments.                                      *)
C6_FewerThanFiveArgsNoRecord ==
  (/\ pc = "done" /\ AlertAt # {}
   /\ \A i \in 1..Len(chunks) : ChunkAt(i).args < MinParts)
    => patterns = <<>>

(* chunk i is a comment and nothing else *)
IsCommented(i) == ChunkAt(i).text \in {BlockCommented, LineCommented}

(* the text without its comments: a chunk that is a comment leaves an      *)
(* empty line                                                              *)
StrippedText ==
  JoinLines([i \in 1..Len(chunks) |->
               [text |-> IF IsCommented(i) THEN <<>> ELSE ChunkAt(i).text]])

(* C13: comments are stripped before scanning: in each script the records  *)
(* of a text are those of the text without its comments, a call inside a   *)
(* block comment or after // contributing to none, and the stripping       *)
(* leaves the text outside the comments as it is.                          *)
C13_CommentsNeverContribute ==
  pc = "done"
    => /\ patterns = extractStreamPatterns(script, StrippedText)
       /\ script # "scanner" => cleanContent(content) = StrippedText

(* the 1-based line of position k of a text *)
LineAt(text, k) == Cardinality({j \in 1..(k - 1) : text[j] = NL}) + 1

(* the lines of the text without comments that hold a .stream( token *)
StreamLines ==
  {LineAt(StrippedText, k) :
     k \in {j \in 1..Len(StrippedText) : StrippedText[j] = ".stream"}}

(* C14: the lineNumber of every record is the line, in the text without    *)
(* comments, of a .stream( token itself, also when the receiver stands on  *)
(* the line before it.                                                     *)
C14_LineOfTheStreamToken ==
  pc = "done"
    => \A i \in 1..Len(patterns) : patterns[i].lineNumber \in StreamLines

C16_NoLiteralNoRecord ==
  pc = "done"
    => \A i \in 1..Len(chunks) :
         ChunkAt(i).text = LaterLiteral
           => \A k \in 1..Len(patterns) :
                patterns[k].lineNumber # StartLine(i)

(* the idiom in its multi-line form, for each delimiter and each key *)
LiteralForms ==
  {BraceMulti(q, k) : q \in {SQ, DQ, BQ}, k \in {KeyXY, KeyZ, KeyAB}}

(* C17: the key is a string literal in single quotes, double quotes or     *)
(* backticks, closed by the delimiter that opened it: for each delimiter   *)
(* the literal is recognised, and the key is the whole of it, not cut at a *)
(* delimiter of another kind.                                              *)
C17_KeyClosedByItsOwnDelimiter ==
  (pc = "done" /\ Len(chunks) = 1 /\ ChunkAt(1).text \in LiteralForms)
    => /\ Len(patterns) >= 1
       /\ \A k \in 1..Len(patterns) : patterns[k].a = ChunkAt(1).key

(* C18: when the setAlert call found for a stream call fails extraction,   *)
(* here for having two arguments, the stream call gives no record: it is   *)
(* not paired with a later setAlert call of the window.                    *)
C18_FailedSetAlertEndsTheSearch ==
  pc = "done"
    => \A i \in 1..Len(chunks) :
         ChunkAt(i).text = FailedThenGood
           => \A k \in 1..Len(patterns) :
                patterns[k].lineNumber # StartLine(i)

----------------------------------------------------------------------------
(* Properties of flattenTranslationKeys, under SpecFlatten.                *)

(* the leaves of an object in the order they are visited, each with the    *)
(* path of keys that leads to it                                           *)
RECURSIVE LeafList(_, _)
LeafList(obj, path) ==
  IF obj = <<>> THEN <<>>
  ELSE (IF Head(obj)[2].t = "object"
        THEN LeafList(Head(obj)[2].e, Append(path, Head(obj)[1]))
        ELSE << [path |-> Append(path, Head(obj)[1]), value |-> Head(obj)[2]] >>)
       \o LeafList(Tail(obj), path)

LeafSet == {LeafList(jsonData, <<>>)[i] :
              i \in 1..Len(LeafList(jsonData, <<>>))}

(* k1.k2. ... .kn *)
RECURSIVE DotJoin(_)
DotJoin(path) ==
  IF Len(path) = 1 THEN path[1]
  ELSE DotJoin(SubSeq(path, 1, Len(path) - 1)) \o <<".">> \o path[Len(path)]

DictEntries == {<<k, translations[k]>> : k \in DOMAIN translations}

(* C7: the dictionary holds, for every leaf reached by the key path        *)
(* k1, ..., kn, the entry "k1.k2. ... .kn" -> the value of the leaf, and   *)
(* nothing else, arrays being leaves; for every tree, keys that contain a  *)
(* dot included.                                                           *)
C7_ExactlyTheDottedLeafPaths ==
  pc = "done" => DictEntries = {<<DotJoin(l.path), l.value>> : l \in LeafSet}


----------------------------------------------------------------------------
(* Properties of extractAndMatchPatterns, under Spec.                      *)

(* C8: every analysis record whose translation key is absent from the      *)
(* flattened dictionary has hasTranslation = false and translationValue =  *)
(* null.                                                                   *)
C8_AbsentKeyHasNoTranslation ==
  \A i \in 1..Len(allPatterns) :
    allPatterns[i].translationKey \notin DOMAIN translations
      => /\ allPatterns[i].hasTranslation = FALSE
         /\ allPatterns[i].translationValue = Null

(* a text with every double quote doubled and every line break a space *)
RECURSIVE EscapedText(_)
EscapedText(v) ==
  IF v = <<>> THEN <<>>
  ELSE (CASE Head(v) = DQ -> <<DQ, DQ>>
          [] Head(v) = NL -> <<" ">>
          [] OTHER        -> <<Head(v)>>) \o EscapedText(Tail(v))

QuoteEscaped(field, v) == field = <<DQ>> \o EscapedText(v) \o <<DQ>>

(* C9: every string field of every row of the CSV report is written in     *)
(* double quotes, its double quotes doubled and its line breaks turned     *)
(* into spaces, in every script.                                           *)
C9_EveryFieldQuoteEscaped ==
  pc = "done" =>
    \A i \in 1..Len(csv) :
      /\ QuoteEscaped(csv[i].key, allPatterns[i].translationKey)
      /\ QuoteEscaped(csv[i].value, ValueText(allPatterns[i]))
      /\ QuoteEscaped(csv[i].container, allPatterns[i].alertContainer)
      /\ QuoteEscaped(csv[i].type, allPatterns[i].alertType)
      /\ QuoteEscaped(csv[i].path, allPatterns[i].filePath)

(* C10: when the project directory does not exist the run ends with a      *)
(* non-zero exit status before the translation file is loaded or a file is *)
(* scanned, and writes neither report.                                     *)
C10_MissingRootExitsBeforeAnyWork ==
  ~rootExists =>
    /\ pc \in {"start", "exited"}
    /\ (pc = "exited" => exitCode # 0)
    /\ translations = <<>> /\ reads = <<>> /\ allPatterns = <<>>
    /\ written = {}

(* C10, witness: the run has exited on the missing directory *)
C10_ExitedOnMissingRoot ==
  ~rootExists /\ pc = "exited" /\ exitCode = 1 /\ Len(listing) > 0

----------------------------------------------------------------------------
(* Properties of the batch under file-system faults, under Spec.           *)

(* the loop over the files has ended *)
BatchOver == pc \in {"report", "csv", "done", "returned"}

(* the entry or the subtree the fault excludes *)
Excluded(e) ==
  \/ fault.call = "readdir" /\ fault.at = Root
  \/ fault.call # "none" /\ fault.at = e
  \/ e = File(5) /\ fault.call # "none" /\ fault.at = Sub

(* the .ts and .tsx files under the root the fault does not exclude *)
Survivors ==
  {e \in EntriesUnder(listing) :
     /\ e.kind = "file"
     /\ IsTs(SourceFiles[e.file].name)
     /\ ~Excluded(e)}

Scanned == {reads[i] : i \in 1..Len(reads)}

(* C11: when one file cannot be read or stat-ed or one directory cannot be *)
(* listed, every other .ts/.tsx file under the root, the siblings listed   *)
(* after the failing entry included, is still found and scanned.           *)
C11_OnlyTheFailingEntryIsExcluded ==
  BatchOver => \A e \in Survivors : SourceFiles[e.file].path \in Scanned

(* C12: when the localization document is missing or is not JSON, the      *)
(* dictionary is empty, the run is not aborted, and every analysis record  *)
(* has hasTranslation = false.                                             *)
C12_NoDocumentNothingMatched ==
  ((~transExists \/ ~parses) /\ rootExists /\ pc \notin {"start", "load"})
    => /\ translations = <<>>
       /\ pc # "exited" /\ exitCode = 0
       /\ \A i \in 1..Len(allPatterns) : ~allPatterns[i].hasTranslation

(* C19: in a report of extract-banner-ids.js the three views of the lookup *)
(* agree: a record of patterns has hasTranslation = true exactly when its  *)
(* key is in summary.matchedKeys and exactly when its entry of fileResults *)
(* has hasTranslation = true; and matchedTranslations plus                 *)
(* missingTranslations is uniqueTranslationKeys.                           *)
C19_ThreeViewsAgree ==
  (script = "banner" /\ pc \in {"csv", "done"})
    => /\ Len(output.fileResults) = Len(output.patterns)
       /\ \A i \in 1..Len(output.patterns) :
            /\ output.patterns[i].hasTranslation
                 <=> (output.patterns[i].translationKey
                        \in output.summary.matchedKeys)
            /\ output.patterns[i].hasTranslation
                 <=> output.fileResults[i].hasTranslation
       /\ output.metadata.matchedTranslations
            + output.metadata.missingTranslations
            = output.metadata.uniqueTranslationKeys

====
